---- MODULE Spec2Model ----
(***************************************************************************)
(* Model of reddit-tui (src/main.rs): the StatefulList cursor operations,  *)
(* main's terminal setup / teardown and the run_app event loop with its    *)
(* periodic repopulation of the submissions list.                          *)
(*                                                                         *)
(* Time is in milliseconds.  Option<usize> is modelled as a sequence of    *)
(* length 0 (None) or 1 (Some(i)).  A Submission is modelled by its id.    *)
(***************************************************************************)
EXTENDS Integers, Sequences, FiniteSets, TLC

(* ---------------------------- bounds ----------------------------------- *)
\* the clock stops advancing at MaxTime
MaxTime == 750
\* longest listing the feed answers with in the model (at most FetchWindow)
MaxFetch == 12
\* largest ordinary cursor value explored on an empty list (release build)
MaxCursor == 3

(* ------------------------ program constants ---------------------------- *)
\* Duration::from_millis(250)
TickRate == 250
\* app.submissions.items.len() < 10
PopulateThreshold == 10
\* sub.top(25, None)
FetchWindow == 25
\* usize::MAX, scaled to the largest integer TLA+ tools represent
UsizeMax == 2147483647

\* durations a draw, a wait for input or a fetch may take
Delays == {0, 125, 250, 375}

\* Option<usize>
None == <<>>
Some(i) == <<i>>

\* what event::read() hands to the loop
Events == {"q", "Left", "Down", "Up", "Enter", "OtherKey", "Resize", "ReadErr"}

\* a listing of n submissions, ranked from id r
Listing(n, r) == [k \in 1..n |-> ((k + r - 1) % FetchWindow) + 1]

\* the listings sub.top(25, None) may answer with
FetchResults ==
    { Listing(n, r) : n \in {0, 1, 3, PopulateThreshold - 1, PopulateThreshold, MaxFetch},
                      r \in {0, 1} }

VARIABLES
    pc,              \* position of main / run_app
    raw_mode,        \* terminal is in raw mode
    alt_screen,      \* terminal shows the alternate screen
    res,             \* result of run_app as seen by main: "none", "ok", "err"
    exit,            \* how the process ended: "none", "ok", "err", "panic"
    items,           \* app.submissions.items
    selected,        \* app.submissions.state.selected()
    now,             \* Instant::now()
    last_tick,       \* last_tick of run_app
    overflow_checks, \* build profile: TRUE = debug (overflow panics), FALSE = release (wraps)
    fetch_times,     \* history: the instants at which sub.top was called
    last             \* history: the last loop step, with the state it started from

vars == <<pc, raw_mode, alt_screen, res, exit, items, selected, now, last_tick,
          overflow_checks, fetch_times, last>>

\* a - b in usize arithmetic when the build wraps
WrappingSub(a, b) == IF a >= b THEN a - b ELSE (UsizeMax - (b - a)) + 1

\* outcome of a cursor operation: the new cursor, or a panic
Moved(i) == [panicked |-> FALSE, selected |-> Some(i)]
Panicked == [panicked |-> TRUE, selected |-> None]

\* StatefulList::with_items: ListState::default() has nothing selected
with_items(its) == [items |-> its, selected |-> None]

\* next with the wrap test written against len() instead of len() - 1
next_wraps_late(its, sel, oc) ==
    IF sel = None THEN Moved(0)
    ELSE IF Len(its) = 0 /\ oc THEN Panicked
    ELSE IF sel[1] >= Len(its) THEN Moved(0)
    ELSE Moved(sel[1] + 1)

\* next that stays on the last row instead of wrapping
next_sticks_at_end(its, sel, oc) ==
    IF sel = None THEN Moved(0)
    ELSE IF Len(its) = 0 /\ oc THEN Panicked
    ELSE IF sel[1] >= WrappingSub(Len(its), 1) THEN Moved(sel[1])
    ELSE Moved(sel[1] + 1)

\* StatefulList::next
next(its, sel, oc) ==
    IF sel = None THEN Moved(0)
    ELSE IF Len(its) = 0 /\ oc THEN Panicked
    ELSE IF sel[1] >= WrappingSub(Len(its), 1) THEN Moved(0)
    ELSE Moved(sel[1] + 1)

\* previous that stops at the first row instead of wrapping
previous_no_wrap(its, sel, oc) ==
    IF sel = None THEN Moved(0)
    ELSE IF sel[1] = 0 THEN Moved(0)
    ELSE Moved(sel[1] - 1)

\* StatefulList::previous
previous(its, sel, oc) ==
    IF sel = None THEN Moved(0)
    ELSE IF sel[1] = 0
         THEN IF Len(its) = 0 /\ oc THEN Panicked
              ELSE Moved(WrappingSub(Len(its), 1))
    ELSE Moved(sel[1] - 1)

\* unselect that leaves the cursor where it is
unselect_keeps(its, sel) == sel

\* StatefulList::unselect
unselect(its, sel) == None

\* last_tick.elapsed()
Elapsed == now - last_tick

\* the wait computed with a plain subtraction, without the floor
Timeout_unfloored == TickRate - Elapsed

\* tick_rate.checked_sub(last_tick.elapsed()).unwrap_or_else(|| 0)
Timeout == IF Elapsed <= TickRate THEN TickRate - Elapsed ELSE 0

\* record of a loop step: what it was, and the list it started from
Step(op, arg) == [op |-> op, selected |-> selected, items |-> items, arg |-> arg]

\* App::new, and the process before main's first statement
Init ==
    /\ pc = "enable_raw"
    /\ raw_mode = FALSE
    /\ alt_screen = FALSE
    /\ res = "none"
    /\ exit = "none"
    /\ items = <<>>
    /\ selected = None
    /\ now = 0
    /\ last_tick = 0
    /\ overflow_checks \in BOOLEAN
    /\ fetch_times = <<>>
    /\ last = [op |-> "init", selected |-> None, items |-> <<>>, arg |-> <<>>]

\* main returns Err through `?`
ReturnErr ==
    /\ pc' = "done"
    /\ exit' = "err"

\* enable_raw_mode()?
EnableRawMode ==
    /\ pc = "enable_raw"
    /\ \/ /\ raw_mode' = TRUE
          /\ pc' = "enter_screen"
          /\ exit' = exit
       \/ /\ raw_mode' = raw_mode
          /\ ReturnErr
    /\ UNCHANGED <<alt_screen, res, items, selected, now, last_tick,
                   overflow_checks, fetch_times, last>>

\* execute!(stdout, EnterAlternateScreen, EnableMouseCapture)?
EnterScreen ==
    /\ pc = "enter_screen"
    /\ \/ /\ alt_screen' = TRUE
          /\ pc' = "new_terminal"
          /\ exit' = exit
       \/ /\ alt_screen' \in BOOLEAN
          /\ ReturnErr
    /\ UNCHANGED <<raw_mode, res, items, selected, now, last_tick,
                   overflow_checks, fetch_times, last>>

\* Terminal::new(backend)?, App::new(), and run_app's last_tick = Instant::now()
NewTerminal ==
    /\ pc = "new_terminal"
    /\ \/ /\ pc' = "draw"
          /\ exit' = exit
       \/ ReturnErr
    /\ UNCHANGED <<raw_mode, alt_screen, res, items, selected, now, last_tick,
                   overflow_checks, fetch_times, last>>

\* run_app returns r to main
Return(r) ==
    /\ pc' = "disable_raw"
    /\ res' = r

\* a panic unwinds out of main: nothing after the call to run_app runs
Panic ==
    /\ pc' = "done"
    /\ exit' = "panic"

\* terminal.draw(|f| ui(f, &mut app))?
Draw ==
    /\ pc = "draw"
    /\ \E d \in Delays :
          /\ now + d <= MaxTime
          /\ now' = now + d
    /\ \/ /\ pc' = "poll"
          /\ res' = res
       \/ Return("err")
    /\ last' = Step("draw", <<>>)
    /\ UNCHANGED <<raw_mode, alt_screen, exit, items, selected, last_tick,
                   overflow_checks, fetch_times>>

\* the cursor values the exploration follows: any index of a non-empty list,
\* and on an empty list 0..MaxCursor and usize::MAX
Explored(its, r) ==
    IF r.panicked THEN TRUE
    ELSE IF r.selected[1] = UsizeMax THEN TRUE
    ELSE r.selected[1] <= (IF Len(its) > MaxCursor THEN Len(its) ELSE MaxCursor)

\* crossterm::event::poll(timeout)? answers Ok(true) within the timeout
Polled(d) ==
    /\ pc = "poll"
    /\ d \in Delays
    /\ d <= Timeout
    /\ now + d <= MaxTime
    /\ now' = now + d

\* KeyCode::Char('q') => return Ok(())
KeyQuit ==
    /\ \E d \in Delays : Polled(d)
    /\ Return("ok")
    /\ last' = Step("q", <<>>)
    /\ UNCHANGED <<raw_mode, alt_screen, exit, items, selected, last_tick,
                   overflow_checks, fetch_times>>

\* KeyCode::Left => app.submissions.unselect()
KeyLeft ==
    /\ \E d \in Delays : Polled(d)
    /\ selected' = unselect(items, selected)
    /\ pc' = "tick"
    /\ last' = Step("Left", <<>>)
    /\ UNCHANGED <<raw_mode, alt_screen, res, exit, items, last_tick,
                   overflow_checks, fetch_times>>

\* the cursor operation returned r: store the cursor, or unwind
Apply(r) ==
    IF r.panicked
    THEN /\ Panic
         /\ selected' = selected
    ELSE /\ selected' = r.selected
         /\ pc' = "tick"
         /\ exit' = exit

\* KeyCode::Down => app.submissions.next()
KeyDown ==
    /\ \E d \in Delays : Polled(d)
    /\ Explored(items, next(items, selected, overflow_checks))
    /\ Apply(next(items, selected, overflow_checks))
    /\ last' = Step("Down", <<>>)
    /\ UNCHANGED <<raw_mode, alt_screen, res, items, last_tick,
                   overflow_checks, fetch_times>>

\* KeyCode::Up => app.submissions.previous()
KeyUp ==
    /\ \E d \in Delays : Polled(d)
    /\ Explored(items, previous(items, selected, overflow_checks))
    /\ Apply(previous(items, selected, overflow_checks))
    /\ last' = Step("Up", <<>>)
    /\ UNCHANGED <<raw_mode, alt_screen, res, items, last_tick,
                   overflow_checks, fetch_times>>

\* an ignored event that also drops the selection
Ignored_clears ==
    /\ \E d \in Delays : Polled(d)
    /\ \E evt \in Events \ {"q", "Left", "Down", "Up"} :
          last' = Step(evt, <<>>)
    /\ selected' = None
    /\ pc' = "tick"
    /\ UNCHANGED <<raw_mode, alt_screen, res, exit, items, last_tick,
                   overflow_checks, fetch_times>>

\* an Enter key wired to the cursor, as a confirm that selects a row
Ignored_enter_selects ==
    /\ \E d \in Delays : Polled(d)
    /\ \E evt \in Events \ {"q", "Left", "Down", "Up"} :
          /\ last' = Step(evt, <<>>)
          /\ selected' = IF evt = "Enter" THEN Some(0) ELSE selected
    /\ pc' = "tick"
    /\ UNCHANGED <<raw_mode, alt_screen, res, exit, items, last_tick,
                   overflow_checks, fetch_times>>

\* `_ => {}`, Event::Resize (println!), and read() failing (.ok() is None)
Ignored ==
    /\ \E d \in Delays : Polled(d)
    /\ \E evt \in Events \ {"q", "Left", "Down", "Up"} :
          last' = Step(evt, <<>>)
    /\ pc' = "tick"
    /\ UNCHANGED <<raw_mode, alt_screen, res, exit, items, selected, last_tick,
                   overflow_checks, fetch_times>>

\* poll(timeout)? answers Ok(false): the timeout passed without an event
PollTimeout ==
    /\ pc = "poll"
    /\ \E d \in Delays :
          /\ d >= Timeout
          /\ now + d <= MaxTime
          /\ now' = now + d
    /\ pc' = "tick"
    /\ last' = Step("timeout", <<>>)
    /\ UNCHANGED <<raw_mode, alt_screen, res, exit, items, selected, last_tick,
                   overflow_checks, fetch_times>>

\* poll(timeout)? answers Err
PollError ==
    /\ pc = "poll"
    /\ Return("err")
    /\ last' = Step("poll_err", <<>>)
    /\ UNCHANGED <<raw_mode, alt_screen, exit, items, selected, now, last_tick,
                   overflow_checks, fetch_times>>

\* a tick test that no longer looks at the elapsed time
ShouldTick_every_cycle == Elapsed >= 0

\* if last_tick.elapsed() >= tick_rate
ShouldTick == Elapsed >= TickRate

\* a refresh that fetches on every due tick
ShouldFetch_always == Len(items) >= 0

\* a populate test that is off by one
ShouldFetch_inclusive == Len(items) <= PopulateThreshold

\* if app.submissions.items.len() < 10
ShouldFetch == Len(items) < PopulateThreshold

\* a refresh that forgets state.select(Some(0))
Refreshed_unselected(listing) == with_items(listing)

\* app.submissions = StatefulList::with_items(..collect()); state.select(Some(0))
Refreshed(listing) == [with_items(listing) EXCEPT !.selected = Some(0)]

\* the tick is not due
TickSkip ==
    /\ pc = "tick"
    /\ ~ShouldTick
    /\ pc' = "draw"
    /\ last' = Step("skip", <<>>)
    /\ UNCHANGED <<raw_mode, alt_screen, res, exit, items, selected, now, last_tick,
                   overflow_checks, fetch_times>>

\* the tick is due and the list is populated: app.on_tick(); last_tick = now
TickNoFetch ==
    /\ pc = "tick"
    /\ ShouldTick
    /\ ~ShouldFetch
    /\ last_tick' = now
    /\ pc' = "draw"
    /\ last' = Step("tick", <<>>)
    /\ UNCHANGED <<raw_mode, alt_screen, res, exit, items, selected, now,
                   overflow_checks, fetch_times>>

\* the tick is due, the list is short and sub.top(25, None) answers Ok
TickFetchOk ==
    /\ pc = "tick"
    /\ ShouldTick
    /\ ShouldFetch
    /\ \E listing \in FetchResults, d \in Delays :
          /\ now + d <= MaxTime
          /\ now' = now + d
          /\ items' = Refreshed(listing).items
          /\ selected' = Refreshed(listing).selected
          /\ last' = Step("fetch_ok", listing)
    /\ last_tick' = now'
    /\ fetch_times' = Append(fetch_times, now)
    /\ pc' = "draw"
    /\ UNCHANGED <<raw_mode, alt_screen, res, exit, overflow_checks>>

\* the tick is due, the list is short and sub.top(25, None) answers Err: unwrap() panics
TickFetchErr ==
    /\ pc = "tick"
    /\ ShouldTick
    /\ ShouldFetch
    /\ fetch_times' = Append(fetch_times, now)
    /\ Panic
    /\ last' = Step("fetch_err", <<>>)
    /\ UNCHANGED <<raw_mode, alt_screen, res, items, selected, now, last_tick,
                   overflow_checks>>

\* disable_raw_mode()?
DisableRawMode ==
    /\ pc = "disable_raw"
    /\ \/ /\ raw_mode' = FALSE
          /\ pc' = "leave_screen"
          /\ exit' = exit
       \/ /\ raw_mode' = raw_mode
          /\ ReturnErr
    /\ UNCHANGED <<alt_screen, res, items, selected, now, last_tick,
                   overflow_checks, fetch_times, last>>

\* execute!(terminal.backend_mut(), LeaveAlternateScreen, DisableMouseCapture)?
LeaveScreen ==
    /\ pc = "leave_screen"
    /\ \/ /\ alt_screen' = FALSE
          /\ pc' = "show_cursor"
          /\ exit' = exit
       \/ /\ alt_screen' \in BOOLEAN
          /\ ReturnErr
    /\ UNCHANGED <<raw_mode, res, items, selected, now, last_tick,
                   overflow_checks, fetch_times, last>>

\* terminal.show_cursor()?; the error of run_app is printed; Ok(())
ShowCursor ==
    /\ pc = "show_cursor"
    /\ pc' = "done"
    /\ exit' \in {"ok", "err"}
    /\ UNCHANGED <<raw_mode, alt_screen, res, items, selected, now, last_tick,
                   overflow_checks, fetch_times, last>>

Next ==
    \/ EnableRawMode
    \/ EnterScreen
    \/ NewTerminal
    \/ Draw
    \/ KeyQuit
    \/ KeyLeft
    \/ KeyDown
    \/ KeyUp
    \/ Ignored
    \/ PollTimeout
    \/ PollError
    \/ TickSkip
    \/ TickNoFetch
    \/ TickFetchOk
    \/ TickFetchErr
    \/ DisableRawMode
    \/ LeaveScreen
    \/ ShowCursor

Spec == Init /\ [][Next]_vars

TypeOK ==
    /\ pc \in {"enable_raw", "enter_screen", "new_terminal", "draw", "poll", "tick",
               "disable_raw", "leave_screen", "show_cursor", "done"}
    /\ raw_mode \in BOOLEAN
    /\ alt_screen \in BOOLEAN
    /\ res \in {"none", "ok", "err"}
    /\ exit \in {"none", "ok", "err", "panic"}
    /\ items \in FetchResults
    /\ Len(selected) <= 1
    /\ now \in 0..MaxTime
    /\ last_tick \in 0..now

(* ------------------------------ claims --------------------------------- *)

\* the cursor c addresses a row of the list its
ValidCursor(its, c) == IF c = None THEN TRUE ELSE c[1] < Len(its)

\* C1: in every reachable state the feed cursor is None or Some(i) with
\* 0 <= i < len(items).
C1_CursorInBounds == ValidCursor(items, selected)

\* C2: on an empty list next() and previous() do not panic and leave the
\* cursor None.
C2_EmptyListNoOp ==
    (last.op \in {"Down", "Up"} /\ last.items = <<>>)
        => (exit # "panic" /\ selected = None)

\* C3: a refresh whose fetch fails leaves items and cursor as they were and
\* the event loop goes on to its next cycle.
C3_FailedFetchSwallowed ==
    last.op = "fetch_err"
        => (items = last.items /\ selected = last.selected /\ exit = "none" /\ pc = "draw")

\* C4: after a refresh replaced the items, for every fetched listing including
\* the empty one, the cursor is None or a valid index into the new items.
C4_ReplaceCursorValid ==
    last.op = "fetch_ok" => ValidCursor(items, selected)

\* C5: whenever the program has ended, by whatever path, raw mode is disabled
\* and the alternate screen is left.
C5_TerminalRestored ==
    pc = "done" => (~raw_mode /\ ~alt_screen)

RECURSIVE NextWalk(_, _, _)
\* the cursors that k successive calls of next() on the list its visit, starting after cursor c
NextWalk(its, c, k) ==
    IF k = 0 THEN <<>>
    ELSE <<next(its, c, FALSE).selected>> \o NextWalk(its, next(its, c, FALSE).selected, k - 1)

\* C6: on a non-empty list of length n, next() from None gives Some(0) and
\* from Some(i) gives Some((i+1) mod n); n calls of next() from Some(0) visit
\* every index exactly once and end at Some(0).
C6_NextCycles ==
    /\ (last.op = "Down" /\ Len(last.items) > 0)
          => /\ exit # "panic"
             /\ selected = IF last.selected = None THEN Some(0)
                           ELSE Some((last.selected[1] + 1) % Len(last.items))
    /\ Len(items) > 0
          => LET walk == NextWalk(items, Some(0), Len(items))
             IN  /\ walk[Len(items)] = Some(0)
                 /\ {walk[k] : k \in 1..Len(items)} = {Some(i) : i \in 0..(Len(items) - 1)}

\* a Down key wrapped the cursor from the last row of a three-row list to row 0
C6_Witness ==
    /\ last.op = "Down"
    /\ Len(last.items) = 3
    /\ last.selected = Some(2)
    /\ selected = Some(0)

\* C7: on a non-empty list of length n, previous() from None gives Some(0),
\* from Some(0) gives Some(n-1) and from Some(i), i > 0, gives Some(i-1).
C7_PreviousWraps ==
    (last.op = "Up" /\ Len(last.items) > 0)
        => /\ exit # "panic"
           /\ selected = IF last.selected = None THEN Some(0)
                         ELSE IF last.selected[1] = 0 THEN Some(Len(last.items) - 1)
                         ELSE Some(last.selected[1] - 1)

\* an Up key wrapped the cursor from row 0 of a three-row list to its last row
C7_Witness ==
    /\ last.op = "Up"
    /\ Len(last.items) = 3
    /\ last.selected = Some(0)
    /\ selected = Some(2)

\* C8: a periodic-refresh step taken with at least PopulateThreshold items
\* never calls sub.top, however much time has elapsed.
C8_NoFetchWhenPopulated ==
    [][(pc = "tick" /\ Len(items) >= PopulateThreshold)
          => (fetch_times' = fetch_times /\ items' = items)]_vars

\* a due tick ran over a list of exactly PopulateThreshold rows, long after the only fetch
C8_Witness ==
    /\ last.op = "tick"
    /\ Len(last.items) = PopulateThreshold
    /\ Len(fetch_times) = 1
    /\ now >= fetch_times[1] + TickRate + TickRate

\* C9: sub.top is never called while less than TickRate has elapsed since the
\* last tick, so any two calls are at least TickRate apart.
C9_FetchDebounced ==
    /\ [][fetch_times' # fetch_times => Elapsed >= TickRate]_vars
    /\ [](\A i, j \in DOMAIN fetch_times :
             i < j => fetch_times[j] - fetch_times[i] >= TickRate)

\* two fetches exactly TickRate apart, then a cycle over a short list that did not fetch
C9_Witness ==
    /\ Len(fetch_times) = 2
    /\ fetch_times[2] - fetch_times[1] = TickRate
    /\ last.op = "skip"
    /\ Len(items) < PopulateThreshold

\* C10: a refresh with fewer than PopulateThreshold items whose fetch succeeds
\* makes items exactly the fetched listing, the cursor Some(0) and last_tick now.
C10_RefreshReplaces ==
    last.op = "fetch_ok"
        => /\ Len(last.items) < PopulateThreshold
           /\ items = last.arg
           /\ selected = Some(0)
           /\ last_tick = now

\* a refresh replaced a three-row list whose cursor was on its last row by another listing
C10_Witness ==
    /\ last.op = "fetch_ok"
    /\ Len(last.items) = 3
    /\ last.selected = Some(2)
    /\ Len(items) = 3
    /\ items # last.items

\* a step that is neither the q key, nor an I/O error of setup, draw or poll,
\* nor a failed fetch: the run goes on, or a cursor operation panics
Uninterrupted ==
    /\ pc' # "disable_raw"
    /\ pc' = "done" => exit' = "panic"

\* the loop fed with any input events, with a terminal that works and fetches that succeed
LiveNext ==
    \/ EnableRawMode /\ Uninterrupted
    \/ EnterScreen /\ Uninterrupted
    \/ NewTerminal /\ Uninterrupted
    \/ Draw /\ Uninterrupted
    \/ KeyLeft
    \/ KeyDown
    \/ KeyUp
    \/ Ignored
    \/ PollTimeout
    \/ TickSkip
    \/ TickNoFetch
    \/ TickFetchOk

\* the single thread keeps executing, and the clock keeps advancing (up to MaxTime)
LiveSpec ==
    /\ Init
    /\ [][LiveNext]_vars
    /\ WF_vars(LiveNext)
    /\ SF_vars(LiveNext /\ now' > now)

\* C11: the tick test runs in every loop cycle, with or without an input
\* event, so with a short feed and fetches that succeed the feed is eventually
\* populated, whatever input events arrive.
C11_EventuallyPopulated == <>(Len(fetch_times) > 0)

\* the input events other than the q key
OtherEvents == Events \ {"q"}

\* C12: processing the q key ends the event loop at once, with nothing of the
\* loop's state touched afterwards, and no other input event ends the loop.
C12_OnlyQuitEndsLoop ==
    /\ [](last.op = "q" => (res = "ok" /\ pc \in {"disable_raw", "leave_screen", "show_cursor", "done"}))
    /\ [][res = "ok" => UNCHANGED <<items, selected, now, last_tick, fetch_times, last>>]_vars
    /\ [](last.op \in OtherEvents => pc \in {"tick", "draw"})

\* C13: unselect() sets the cursor to None and leaves the items alone, and
\* unselect() followed by next() on a non-empty list gives what next() gives on
\* a freshly built list with the same items: Some(0).
C13_UnselectThenNext ==
    /\ last.op = "Left"
          => (selected = None /\ items = last.items /\ pc = "tick")
    /\ Len(items) > 0
          => /\ next(items, unselect(items, selected), overflow_checks) = Moved(0)
             /\ next(items, unselect(items, selected), overflow_checks)
                   = next(with_items(items).items, with_items(items).selected, overflow_checks)

\* a Left key cleared a cursor that stood on the last row of a three-row list
C13_Witness ==
    /\ last.op = "Left"
    /\ Len(last.items) = 3
    /\ last.selected = Some(2)
    /\ selected = None

\* C14: a resize event, an unmapped key and an input event that fails to
\* decode each leave items and cursor exactly as they were.
C14_IgnoredEventsKeepState ==
    last.op \in {"Resize", "OtherKey", "ReadErr"}
        => (items = last.items /\ selected = last.selected /\ pc = "tick" /\ exit = "none")

\* a resize arrived while the cursor stood on the middle row of a three-row list
C14_Witness ==
    /\ last.op = "Resize"
    /\ Len(items) = 3
    /\ selected = Some(1)

\* the view the program shows: ui() always draws the list of submissions,
\* and App has no field for a view mode
mode == "List"

\* the detail of the selected submission: App holds none
selectedDetail == None

\* C15: in List mode with cursor Some(i) on a non-empty feed, an Enter key
\* whose detail fetch succeeds moves the app to Detail mode with selectedDetail
\* holding the fetched body.
C15_ConfirmOpensDetail ==
    (last.op = "Enter" /\ last.selected # None /\ ValidCursor(last.items, last.selected))
        => (mode = "Detail" /\ selectedDetail # None)

\* C16: an Enter key received while the cursor is None or the feed is empty
\* is a no-op: the state after it is the state before it, and the mode stays List.
C16_ConfirmWithoutSelection ==
    (last.op = "Enter" /\ (last.selected = None \/ last.items = <<>>))
        => /\ items = last.items
           /\ selected = last.selected
           /\ mode = "List"
           /\ selectedDetail = None
           /\ pc = "tick"
           /\ exit = "none"

\* Enter was pressed on the empty feed with nothing selected
C16_Witness ==
    /\ last.op = "Enter"
    /\ last.items = <<>>
    /\ last.selected = None
    /\ selected = None

\* C17: the input wait computed in a loop cycle is TickRate minus the time
\* elapsed since the last tick, floored at zero: never negative and never more
\* than TickRate.
C17_WaitBounded ==
    pc = "poll"
        => /\ Timeout >= 0
           /\ Timeout <= TickRate
           /\ Elapsed <= TickRate => Timeout + Elapsed = TickRate
           /\ Elapsed > TickRate => Timeout = 0

\* the loop is about to wait for input with more than TickRate already elapsed
C17_Witness ==
    /\ pc = "poll"
    /\ Elapsed > TickRate
    /\ Timeout = 0

\* C18: once the feed holds at least PopulateThreshold items, no later tick
\* or key event changes the items sequence.
C18_PopulatedFeedFrozen ==
    [][Len(items) >= PopulateThreshold => items' = items]_vars

\* an Up key was handled on the longest feed, a full tick interval after the last fetch
C18_Witness ==
    /\ last.op = "Up"
    /\ Len(items) = MaxFetch
    /\ Len(fetch_times) >= 1
    /\ now >= fetch_times[Len(fetch_times)] + TickRate

\* C19: on a non-empty list with cursor Some(i), next() then previous(), and
\* previous() then next(), both return the cursor to Some(i); items are untouched.
C19_NextPreviousInverse ==
    /\ (Len(items) > 0 /\ selected # None)
          => /\ ~next(items, selected, overflow_checks).panicked
             /\ ~previous(items, selected, overflow_checks).panicked
             /\ previous(items, next(items, selected, overflow_checks).selected,
                         overflow_checks) = Moved(selected[1])
             /\ next(items, previous(items, selected, overflow_checks).selected,
                     overflow_checks) = Moved(selected[1])
    /\ (last.op \in {"Down", "Up"} /\ Len(last.items) > 0)
          => items = last.items

\* an Up key took the cursor from the first row of a nine-row list to its last row
C19_Witness ==
    /\ last.op = "Up"
    /\ Len(last.items) = PopulateThreshold - 1
    /\ last.selected = Some(0)
    /\ selected = Some(PopulateThreshold - 2)

====
